---- MODULE Spec2Model ----
(***************************************************************************)
(* A model of the in-memory movie store of PythonApi/database.py           *)
(* (class MovieDatabase) and of the endpoints of PythonApi/main.py that    *)
(* call it.  Several request threads call the store concurrently; every    *)
(* store method first runs _ensure_loaded and then takes the store's lock. *)
(*                                                                         *)
(* Encoding of Python values:                                              *)
(*   - a str is a sequence of one-character strings;                       *)
(*   - an Optional[T] is a sequence of length 0 (None) or 1 (the value);   *)
(*   - a float is an integer (the filters only compare values);            *)
(*   - a list is a sequence; a genre/cast/crew dict is a record whose      *)
(*     field name is the Optional value of its "name" key.                 *)
(***************************************************************************)
EXTENDS Integers, Sequences, FiniteSets, TLC

\* ------------------------------------------------------------------ bounds
NumThreads == 2      \* request threads of the thread pool
MaxCalls == 2        \* store calls started in one behaviour
MaxRows == 3         \* rows of the data source, over all its files
MaxPage == 3         \* page numbers tried by callers
MaxSize == 2         \* page sizes tried by callers
MaxId == 3           \* ids 1..MaxId are asked for by callers
load_chunk_size == 2 \* MovieDatabase._load_chunk_size, scaled down from 200

Threads == 1..NumThreads

\* ------------------------------------------------------- Python encodings
None == <<>>
Some(x) == <<x>>
IsNone(o) == o = <<>>
Val(o) == o[1]
\* truthiness of an Optional[number]: None and 0 are falsy
TruthyNum(o) == o # None /\ Val(o) # 0
\* truthiness of an Optional[str]: None and "" are falsy
TruthyStr(o) == o # None /\ Val(o) # <<>>

Min(a, b) == IF a < b THEN a ELSE b
Max(a, b) == IF a > b THEN a ELSE b

\* Python's s[start:end] for integers start, end (step 1)
SliceIndex(i, n) == IF i < 0 THEN Max(i + n, 0) ELSE Min(i, n)
Slice(s, start, end) ==
    LET a == SliceIndex(start, Len(s))
        b == SliceIndex(end, Len(s))
    IN  IF a < b THEN SubSeq(s, a + 1, b) ELSE <<>>

\* str.lower() on the ASCII letters
UpperToLower ==
    [A |-> "a", B |-> "b", C |-> "c", D |-> "d", E |-> "e", F |-> "f",
     G |-> "g", H |-> "h", I |-> "i", J |-> "j", K |-> "k", L |-> "l",
     M |-> "m", N |-> "n", O |-> "o", P |-> "p", Q |-> "q", R |-> "r",
     S |-> "s", T |-> "t", U |-> "u", V |-> "v", W |-> "w", X |-> "x",
     Y |-> "y", Z |-> "z"]
LowerChar(c) == IF c \in DOMAIN UpperToLower THEN UpperToLower[c] ELSE c
Lower(s) == [i \in 1..Len(s) |-> LowerChar(s[i])]

\* `sub in s` / s.find(sub) >= 0
Contains(s, sub) ==
    \E i \in 0..(Len(s) - Len(sub)) : SubSeq(s, i + 1, i + Len(sub)) = sub

\* --------------------------------------------------------------- records
\* The catalog fields of a record: what a CSV row or a create command carries.
CatalogFields ==
    {"title", "overview", "genres", "keywords", "tagline", "cast", "crew",
     "production_companies", "production_countries", "spoken_languages",
     "original_language", "original_title", "release_date", "runtime",
     "vote_average", "vote_count", "popularity"}
PersonalFields == {"is_favorite", "personal_rating", "personal_notes"}

CatUp ==
    [title |-> <<"U", "p">>, overview |-> Some(<<"s", "k", "y">>),
     genres |-> <<[name |-> Some(<<"C", "o", "m">>)]>>,
     keywords |-> <<>>, tagline |-> None,
     cast |-> <<[name |-> Some(<<"E", "d">>)]>>, crew |-> <<>>,
     production_companies |-> <<>>, production_countries |-> <<>>,
     spoken_languages |-> <<>>, original_language |-> Some(<<"e", "n">>),
     original_title |-> Some(<<"U", "p">>),
     release_date |-> Some(<<"2", "0", "0", "9", "-", "0", "5">>),
     runtime |-> Some(96), vote_average |-> Some(8), vote_count |-> Some(10),
     popularity |-> Some(3)]
CatIt ==
    [title |-> <<"I", "t">>, overview |-> None,
     genres |-> <<[name |-> Some(<<"A", "c", "t">>)],
                  [name |-> Some(<<"c", "o", "m">>)]>>,
     keywords |-> <<>>, tagline |-> Some(<<"b", "o", "o">>),
     cast |-> <<>>, crew |-> <<[name |-> Some(<<"S", "k", "y">>)]>>,
     production_companies |-> <<>>, production_countries |-> <<>>,
     spoken_languages |-> <<>>, original_language |-> Some(<<"f", "r">>),
     original_title |-> None,
     release_date |-> None,
     runtime |-> None, vote_average |-> Some(0), vote_count |-> None,
     popularity |-> None]


\* A row of a CSV file: Movie.from_csv_row raises on a bad row.
RowValues ==
    {[bad |-> TRUE, data |-> CatUp], [bad |-> FALSE, data |-> CatUp],
     [bad |-> FALSE, data |-> CatIt]}

\* Movie.from_csv_row(row, movie_id) on a row it accepts: the row's catalog
\* fields, the given id, the personal fields at their defaults.
from_csv_row(row, movie_id) ==
    [id |-> movie_id, title |-> row.data.title, overview |-> row.data.overview,
     genres |-> row.data.genres, keywords |-> row.data.keywords,
     tagline |-> row.data.tagline, cast |-> row.data.cast,
     crew |-> row.data.crew,
     production_companies |-> row.data.production_companies,
     production_countries |-> row.data.production_countries,
     spoken_languages |-> row.data.spoken_languages,
     original_language |-> row.data.original_language,
     original_title |-> row.data.original_title,
     release_date |-> row.data.release_date, runtime |-> row.data.runtime,
     vote_average |-> row.data.vote_average,
     vote_count |-> row.data.vote_count, popularity |-> row.data.popularity,
     is_favorite |-> FALSE, personal_rating |-> None, personal_notes |-> None]

SeqsUpTo(S, n) == UNION {[1..k -> S] : k \in 0..n}

\* ------------------------------------------------------------ bulk load
\* What the loader finds on disk.  state "missing": the path does not exist;
\* "error": listing the directory raises; "no_encoding": no encoding of the
\* tried list parses the sample; "ok": readable.
\* fail_at = k > 0: the paged reader raises when page k is read.
NumPages(rows) == (Len(rows) + load_chunk_size - 1) \div load_chunk_size
CsvSources ==
    {[state |-> s, rows |-> <<>>, fail_at |-> 0] : s \in {"missing", "no_encoding"}}
    \cup UNION {{[state |-> "ok", rows |-> r, fail_at |-> k] :
                    k \in 0..NumPages(r)} :
                r \in SeqsUpTo(RowValues, MaxRows) \ {<<>>}}
\* The chunk directory: no chunk file, or the rows split over two chunk files
\* (either may be empty, either may be unreadable).
ChunkSources ==
    {[state |-> s, files |-> <<>>] : s \in {"missing", "error", "ok"}}
    \cup UNION {{[state |-> "ok",
                  files |-> <<[readable |-> r1, rows |-> SubSeq(r, 1, k)],
                              [readable |-> r2,
                               rows |-> SubSeq(r, k + 1, Len(r))]>>] :
                    k \in 0..Len(r), r1 \in BOOLEAN, r2 \in BOOLEAN} :
                r \in SeqsUpTo(RowValues, MaxRows)}

\* database.py 94-102: the rows of one chunk file; st = [movies, total_loaded]
RECURSIVE load_chunk_rows(_, _, _)
load_chunk_rows(rows, i, st) ==
    IF i > Len(rows) THEN st
    ELSE IF rows[i].bad THEN load_chunk_rows(rows, i + 1, st)
    ELSE LET movie_id == st.total_loaded + 1
         IN  load_chunk_rows(rows, i + 1,
                 [movies |-> Append(st.movies, from_csv_row(rows[i], movie_id)),
                  total_loaded |-> st.total_loaded + 1])

\* database.py 81-108: the chunk files in sorted order; an unreadable file is skipped
RECURSIVE load_chunk_files(_, _, _)
load_chunk_files(files, k, st) ==
    IF k > Len(files) THEN st
    ELSE IF ~files[k].readable THEN load_chunk_files(files, k + 1, st)
    ELSE load_chunk_files(files, k + 1, load_chunk_rows(files[k].rows, 1, st))

\* database.py 63-111: the new [movies, next_id] and whether it raised
load_from_chunks(src, movies0, next0) ==
    IF src.state = "error" THEN
        [movies |-> movies0, next_id |-> next0, raised |-> TRUE]
    ELSE IF src.state = "missing" \/ src.files = <<>> THEN
        [movies |-> movies0, next_id |-> next0, raised |-> FALSE]
    ELSE LET st == load_chunk_files(src.files, 1,
                       [movies |-> <<>>, total_loaded |-> 0])
         IN  [movies |-> st.movies, next_id |-> Len(st.movies) + 1,
              raised |-> FALSE]

\* database.py 156: the id given to the row at position idx of the file, in
\* the page whose first row is at position index0
csv_movie_id(processed_count, idx, index0) ==
    processed_count + (idx - index0) + 1

\* database.py 154-161: the rows idx..last of one page
RECURSIVE load_page_rows(_, _, _, _, _, _)
load_page_rows(rows, idx, last, index0, processed_count, movies0) ==
    IF idx > last THEN movies0
    ELSE IF rows[idx + 1].bad THEN
        load_page_rows(rows, idx + 1, last, index0, processed_count, movies0)
    ELSE load_page_rows(rows, idx + 1, last, index0, processed_count,
             Append(movies0,
                    from_csv_row(rows[idx + 1],
                                 csv_movie_id(processed_count, idx, index0))))

\* database.py 151-163: pages chunk_num.. of the file; reading page fail_at raises
RECURSIVE load_pages(_, _, _, _)
load_pages(rows, chunk_num, fail_at, movies0) ==
    IF chunk_num > NumPages(rows) \/ chunk_num = fail_at THEN movies0
    ELSE LET index0 == (chunk_num - 1) * load_chunk_size
             last == Min(chunk_num * load_chunk_size, Len(rows)) - 1
             processed_count == Len(movies0)
         IN  load_pages(rows, chunk_num + 1, fail_at,
                 load_page_rows(rows, index0, last, index0, processed_count,
                                movies0))

\* database.py 113-175
load_from_csv_chunked(src, movies0, next0) ==
    IF src.state = "missing" THEN
        [movies |-> movies0, next_id |-> next0, raised |-> FALSE]
    ELSE IF src.state = "no_encoding" THEN
        [movies |-> movies0, next_id |-> next0, raised |-> TRUE]
    ELSE LET loaded_movies == load_pages(src.rows, 1, src.fail_at, <<>>)
         IN  [movies |-> loaded_movies, next_id |-> Len(loaded_movies) + 1,
              raised |-> FALSE]


\* -------------------------------------------------------------- filters
\* A MovieFilters object; every field is Optional.
NoFilters ==
    [search |-> None, genres |-> None, year_from |-> None, year_to |-> None,
     rating_from |-> None, rating_to |-> None, runtime_from |-> None,
     runtime_to |-> None, language |-> None, is_favorite |-> None,
     personal_rating_from |-> None, personal_rating_to |-> None]


\* entry.get("name", "")
NameOf(entry) == IF entry.name = None THEN <<>> ELSE Val(entry.name)

Digits == <<"0", "1", "2", "3", "4", "5", "6", "7", "8", "9">>
DigitValue(c) == (CHOOSE d \in 1..10 : Digits[d] = c) - 1
IsDigit(c) == \E d \in 1..10 : Digits[d] = c
\* release_date.split("-")[0]
FirstSegment(s) ==
    IF \E i \in 1..Len(s) : s[i] = "-"
    THEN SubSeq(s, 1, (CHOOSE i \in 1..Len(s) :
                          s[i] = "-" /\ \A j \in 1..(i - 1) : s[j] # "-") - 1)
    ELSE s
RECURSIVE DecimalValue(_, _)
DecimalValue(s, n) ==
    IF n = 0 THEN 0 ELSE 10 * DecimalValue(s, n - 1) + DigitValue(s[n])
\* str.strip() of the blanks around a string, as int() does
RECURSIVE Strip(_)
Strip(s) ==
    IF s = <<>> THEN s
    ELSE IF s[1] = " " THEN Strip(Tail(s))
    ELSE IF s[Len(s)] = " " THEN Strip(SubSeq(s, 1, Len(s) - 1))
    ELSE s
\* the digits of an int() literal without its sign: single underscores may
\* stand between digits
IsDigitRun(s) ==
    /\ s # <<>>
    /\ IsDigit(s[1]) /\ IsDigit(s[Len(s)])
    /\ \A i \in 1..Len(s) : IsDigit(s[i]) \/ s[i] = "_"
    /\ \A i \in 1..(Len(s) - 1) : ~(s[i] = "_" /\ s[i + 1] = "_")
\* int(seg): blanks around it, a leading plus sign and underscores between
\* digits are accepted (a minus sign cannot be in the first segment of a
\* split on "-"); None stands for ValueError
ParseInt(seg) ==
    LET stripped == Strip(seg)
        body == IF stripped # <<>> /\ stripped[1] = "+"
                THEN Tail(stripped) ELSE stripped
        digits == SelectSeq(body, IsDigit)
    IN  IF IsDigitRun(body) THEN Some(DecimalValue(digits, Len(digits)))
        ELSE None

\* database.py 260-273
check_year_filter(release_date, year_from, year_to) ==
    IF ~TruthyStr(release_date) THEN FALSE
    ELSE LET year == ParseInt(FirstSegment(Val(release_date)))
         IN  IF year = None THEN FALSE
             ELSE IF TruthyNum(year_from) /\ Val(year) < Val(year_from) THEN FALSE
             ELSE IF TruthyNum(year_to) /\ Val(year) > Val(year_to) THEN FALSE
             ELSE TRUE

\* database.py 205-213
search_match(movie, search) ==
    LET search_term == Lower(Val(search))
    IN  \/ movie.title # <<>> /\ Contains(Lower(movie.title), search_term)
        \/ TruthyStr(movie.overview)
           /\ Contains(Lower(Val(movie.overview)), search_term)
        \/ \E i \in 1..Len(movie.cast) :
              Contains(Lower(NameOf(movie.cast[i])), search_term)
        \/ \E i \in 1..Len(movie.crew) :
              Contains(Lower(NameOf(movie.crew[i])), search_term)

\* every requested genre has to be among the record's genres
genre_match_every(movie, genres) ==
    \A k \in 1..Len(Val(genres)) :
        \E i \in 1..Len(movie.genres) :
            Lower(NameOf(movie.genres[i])) = Lower(Val(genres)[k])
\* database.py 216-220
genre_match(movie, genres) ==
    \E i \in 1..Len(movie.genres) :
        \E k \in 1..Len(Val(genres)) :
            Lower(NameOf(movie.genres[i])) = Lower(Val(genres)[k])

\* database.py 205-213: the search group
search_filter(filtered, f) ==
    IF TruthyStr(f.search)
    THEN SelectSeq(filtered, LAMBDA movie : search_match(movie, f.search))
    ELSE filtered
\* the matches of each requested genre, one requested genre after the other
RECURSIVE genre_filter_per_genre_upto(_, _, _)
genre_filter_per_genre_upto(filtered, genres, k) ==
    IF k = 0 THEN <<>>
    ELSE genre_filter_per_genre_upto(filtered, genres, k - 1)
         \o SelectSeq(filtered,
                LAMBDA movie : genre_match(movie, Some(<<genres[k]>>)))
genre_filter_per_genre(filtered, f) ==
    IF f.genres # None /\ Val(f.genres) # <<>>
    THEN genre_filter_per_genre_upto(filtered, Val(f.genres), Len(Val(f.genres)))
    ELSE filtered
\* database.py 216-220: the genre group
genre_filter(filtered, f) ==
    IF f.genres # None /\ Val(f.genres) # <<>>
    THEN SelectSeq(filtered, LAMBDA movie : genre_match(movie, f.genres))
    ELSE filtered
\* database.py 223-227: the year group
year_filter(filtered, f) ==
    IF TruthyNum(f.year_from) \/ TruthyNum(f.year_to)
    THEN SelectSeq(filtered,
             LAMBDA movie :
                 check_year_filter(movie.release_date, f.year_from, f.year_to))
    ELSE filtered
\* database.py 230-231
rating_from_filter(filtered, f) ==
    IF f.rating_from # None
    THEN SelectSeq(filtered,
             LAMBDA movie : TruthyNum(movie.vote_average)
                            /\ Val(movie.vote_average) >= Val(f.rating_from))
    ELSE filtered
\* an upper bound that lets a record without a vote average pass
rating_to_filter_keeping_absent(filtered, f) ==
    IF f.rating_to # None
    THEN SelectSeq(filtered,
             LAMBDA movie : movie.vote_average = None
                            \/ Val(movie.vote_average) <= Val(f.rating_to))
    ELSE filtered
\* database.py 233-234
rating_to_filter(filtered, f) ==
    IF f.rating_to # None
    THEN SelectSeq(filtered,
             LAMBDA movie : TruthyNum(movie.vote_average)
                            /\ Val(movie.vote_average) <= Val(f.rating_to))
    ELSE filtered
\* database.py 237-238
runtime_from_filter(filtered, f) ==
    IF f.runtime_from # None
    THEN SelectSeq(filtered,
             LAMBDA movie : TruthyNum(movie.runtime)
                            /\ Val(movie.runtime) >= Val(f.runtime_from))
    ELSE filtered
\* database.py 240-241
runtime_to_filter(filtered, f) ==
    IF f.runtime_to # None
    THEN SelectSeq(filtered,
             LAMBDA movie : TruthyNum(movie.runtime)
                            /\ Val(movie.runtime) <= Val(f.runtime_to))
    ELSE filtered
\* database.py 244-245
language_filter(filtered, f) ==
    IF TruthyStr(f.language)
    THEN SelectSeq(filtered, LAMBDA movie : movie.original_language = f.language)
    ELSE filtered
\* an absent is_favorite taken as false
favorite_filter_none_as_false(filtered, f) ==
    SelectSeq(filtered,
        LAMBDA movie :
            movie.is_favorite = (f.is_favorite # None /\ Val(f.is_favorite)))
\* database.py 248-249
favorite_filter(filtered, f) ==
    IF f.is_favorite # None
    THEN SelectSeq(filtered, LAMBDA movie : movie.is_favorite = Val(f.is_favorite))
    ELSE filtered
\* database.py 252-253
personal_rating_from_filter(filtered, f) ==
    IF f.personal_rating_from # None
    THEN SelectSeq(filtered,
             LAMBDA movie :
                 TruthyNum(movie.personal_rating)
                 /\ Val(movie.personal_rating) >= Val(f.personal_rating_from))
    ELSE filtered
\* database.py 255-256
personal_rating_to_filter(filtered, f) ==
    IF f.personal_rating_to # None
    THEN SelectSeq(filtered,
             LAMBDA movie :
                 TruthyNum(movie.personal_rating)
                 /\ Val(movie.personal_rating) <= Val(f.personal_rating_to))
    ELSE filtered

\* the favorite group filtering the store's list again, not the list the
\* groups before it left
apply_filters_restarting(movies0, filters) ==
    IF filters = None THEN movies0
    ELSE
    LET f == Val(filters)
    IN  personal_rating_to_filter(
          personal_rating_from_filter(favorite_filter(movies0, f), f), f)

\* database.py 197-258: the filter groups, applied one after the other (a list
\* comprehension keeps the elements that pass, in order)
apply_filters(movies0, filters) ==
    IF filters = None THEN movies0
    ELSE
    LET f == Val(filters)
    IN  personal_rating_to_filter(
          personal_rating_from_filter(
            favorite_filter(
              language_filter(
                runtime_to_filter(
                  runtime_from_filter(
                    rating_to_filter(
                      rating_from_filter(
                        year_filter(
                          genre_filter(
                            search_filter(movies0, f), f), f), f), f), f), f),
                f), f), f), f)

\* get_movies_paginated with a 0-indexed page
get_movies_paginated_from_zero(movies0, page, size, filters) ==
    LET filtered_movies == apply_filters(movies0, filters)
        total == Len(filtered_movies)
        start_idx == page * size
        end_idx == start_idx + size
    IN  [items |-> Slice(filtered_movies, start_idx, end_idx), total |-> total]
\* get_movies_paginated counting the records of the store
get_movies_paginated_total_of_store(movies0, page, size, filters) ==
    LET filtered_movies == apply_filters(movies0, filters)
        total == Len(movies0)
        start_idx == (page - 1) * size
        end_idx == start_idx + size
    IN  [items |-> Slice(filtered_movies, start_idx, end_idx), total |-> total]
\* get_movies_paginated showing the last page for a page past the end
get_movies_paginated_last_page(movies0, page, size, filters) ==
    LET filtered_movies == apply_filters(movies0, filters)
        total == Len(filtered_movies)
        start_idx == IF total > 0 /\ (page - 1) * size >= total
                     THEN ((total - 1) \div size) * size
                     ELSE (page - 1) * size
        end_idx == start_idx + size
    IN  [items |-> Slice(filtered_movies, start_idx, end_idx), total |-> total]
\* database.py 187-195: (items, total)
get_movies_paginated(movies0, page, size, filters) ==
    LET filtered_movies == apply_filters(movies0, filters)
        total == Len(filtered_movies)
        start_idx == (page - 1) * size
        end_idx == start_idx + size
    IN  [items |-> Slice(filtered_movies, start_idx, end_idx), total |-> total]


\* ----------------------------------------------------- store operations
\* the position of the first record with this id, 0 when there is none
FirstIndex(movies0, id) ==
    IF \E i \in 1..Len(movies0) : movies0[i].id = id
    THEN CHOOSE i \in 1..Len(movies0) :
             movies0[i].id = id /\ \A j \in 1..(i - 1) : movies0[j].id # id
    ELSE 0

\* database.py 280-302: the record create_movie builds
new_movie(next0, command) ==
    [id |-> next0, title |-> command.title, overview |-> command.overview,
     genres |-> command.genres, keywords |-> command.keywords,
     tagline |-> command.tagline, cast |-> command.cast, crew |-> command.crew,
     production_companies |-> command.production_companies,
     production_countries |-> command.production_countries,
     spoken_languages |-> command.spoken_languages,
     original_language |-> command.original_language,
     original_title |-> command.original_title,
     release_date |-> command.release_date, runtime |-> command.runtime,
     vote_average |-> command.vote_average, vote_count |-> command.vote_count,
     popularity |-> command.popularity,
     is_favorite |-> FALSE, personal_rating |-> None, personal_notes |-> None]

\* create_movie without line 304
create_movie_same_id(movies0, next0, command) ==
    LET movie == new_movie(next0, command)
    IN  [movies |-> Append(movies0, movie), next_id |-> next0,
         ret |-> movie.id]
\* database.py 279-309: the new [movies, next_id] and the id returned
create_movie(movies0, next0, command) ==
    LET movie == new_movie(next0, command)
    IN  [movies |-> Append(movies0, movie), next_id |-> next0 + 1,
         ret |-> movie.id]

\* An UpdateMovieCommand field is [given, val]: given tells whether the request
\* named the field, val is what the attribute reads as (None when the field was
\* left out and when it was sent as null).
Omitted == [given |-> FALSE, val |-> None]
Given(v) == [given |-> TRUE, val |-> v]

\* update_movie assigning is_favorite whether or not the command has it
updated_movie_clobbering(movie, command) ==
    [movie EXCEPT
        !.title = IF command.title.val # None
                  THEN Val(command.title.val) ELSE @,
        !.overview = IF command.overview.val # None
                     THEN command.overview.val ELSE @,
        !.is_favorite = command.is_favorite.val = Some(TRUE),
        !.personal_rating = IF command.personal_rating.val # None
                            THEN command.personal_rating.val ELSE @,
        !.personal_notes = IF command.personal_notes.val # None
                           THEN command.personal_notes.val ELSE @]
\* database.py 318-327: the record after the assignments of update_movie
updated_movie(movie, command) ==
    [movie EXCEPT
        !.title = IF command.title.val # None
                  THEN Val(command.title.val) ELSE @,
        !.overview = IF command.overview.val # None
                     THEN command.overview.val ELSE @,
        !.is_favorite = IF command.is_favorite.val # None
                        THEN Val(command.is_favorite.val) ELSE @,
        !.personal_rating = IF command.personal_rating.val # None
                            THEN command.personal_rating.val ELSE @,
        !.personal_notes = IF command.personal_notes.val # None
                           THEN command.personal_notes.val ELSE @]

\* database.py 315-333: the new movies and the value returned
update_movie(movies0, id, command) ==
    LET i == FirstIndex(movies0, id)
    IN  IF i = 0 THEN [movies |-> movies0, ret |-> FALSE]
        ELSE [movies |-> [movies0 EXCEPT ![i] = updated_movie(@, command)],
              ret |-> TRUE]

\* delete_movie taking the id for the position of the record
delete_movie_by_position(movies0, id) ==
    LET i == IF id \in 1..Len(movies0) THEN id ELSE 0
    IN  IF i = 0 THEN [movies |-> movies0, ret |-> FALSE]
        ELSE [movies |-> SubSeq(movies0, 1, i - 1)
                         \o SubSeq(movies0, i + 1, Len(movies0)),
              ret |-> TRUE]
\* database.py 339-348: the new movies and the value returned
delete_movie(movies0, id) ==
    LET i == FirstIndex(movies0, id)
    IN  IF i = 0 THEN [movies |-> movies0, ret |-> FALSE]
        ELSE [movies |-> SubSeq(movies0, 1, i - 1)
                         \o SubSeq(movies0, i + 1, Len(movies0)),
              ret |-> TRUE]

\* database.py 354-358: Optional[Movie]
get_movie_by_id(movies0, id) ==
    LET i == FirstIndex(movies0, id)
    IN  IF i = 0 THEN None ELSE Some(movies0[i])


\* ------------------------------------------------------- callers' inputs
\* CreateMovieCommand: the catalog fields and the three personal fields
CreateCommands ==
    {CatUp @@ [is_favorite |-> FALSE, personal_rating |-> None,
               personal_notes |-> None],
     CatIt @@ [is_favorite |-> TRUE, personal_rating |-> Some(9),
               personal_notes |-> Some(<<"h", "i">>)]}

NoUpdate ==
    [title |-> Omitted, overview |-> Omitted, is_favorite |-> Omitted,
     personal_rating |-> Omitted, personal_notes |-> Omitted]
UpdateCommands ==
    {[NoUpdate EXCEPT !.is_favorite = Given(Some(TRUE))],
     [NoUpdate EXCEPT !.is_favorite = Given(Some(FALSE)),
                      !.title = Given(Some(<<"O", "x">>)),
                      !.personal_rating = Given(Some(7)),
                      !.personal_notes = Given(Some(<<"o", "k">>))],
     [NoUpdate EXCEPT !.personal_rating = Given(None),
                      !.personal_notes = Given(None)]}

FilterArgs ==
    {None,
     Some([NoFilters EXCEPT !.is_favorite = Some(TRUE)]),
     Some([NoFilters EXCEPT !.genres = Some(<<<<"c", "o", "m">>>>)])}

\* ------------------------------------------------------------------ state
VARIABLES
    movies,       \* MovieDatabase._movies
    next_id,      \* MovieDatabase._next_id
    loaded,       \* MovieDatabase._loaded
    lock,         \* MovieDatabase._lock: 0 when free, else the thread holding it
    use_chunks,   \* MovieDatabase.use_chunks
    pc,           \* where each request thread is in its store call
    op,           \* the call a thread has just run: its name and arguments
    ret,          \* the value that call returns
    calls,        \* store calls started so far
    load_runs,    \* how often a bulk load routine has been run
    load_outcome, \* how the bulk load ended: none, ok, missing, raised,
                  \* partial (the paged reader raised), skipped (a chunk file
                  \* could not be read)
    load_kept,    \* accepted rows of the pages or files the load could read
    created,      \* the ids create_movie returned, in lock order
    ever_held     \* every id a record of the store has held

vars ==
    <<movies, next_id, loaded, lock, use_chunks, pc, op, ret, calls,
      load_runs, load_outcome, load_kept, created, ever_held>>

NoOp == [name |-> "none"]
NoRet == [none |-> TRUE]

IdsOf(movies0) == {movies0[i].id : i \in 1..Len(movies0)}
GoodRows(rows) == Cardinality({i \in 1..Len(rows) : ~rows[i].bad})

\* database.py 12-26: the store after construction, with or without csv_path
Init ==
    /\ movies = <<>>
    /\ next_id = 1
    /\ loaded = FALSE
    /\ lock = 0
    /\ use_chunks \in BOOLEAN
    /\ pc = [t \in Threads |-> "idle"]
    /\ op = [t \in Threads |-> NoOp]
    /\ ret = [t \in Threads |-> NoRet]
    /\ calls = 0
    /\ load_runs = 0
    /\ load_outcome = "none"
    /\ load_kept = 0
    /\ created = <<>>
    /\ ever_held = {}

store_vars == <<movies, next_id, loaded, use_chunks>>
ghost_vars == <<load_runs, load_outcome, load_kept, created, ever_held>>

\* a request thread enters a store method (each starts with _ensure_loaded)
Call(t) ==
    /\ pc[t] = "idle"
    /\ calls < MaxCalls
    /\ calls' = calls + 1
    /\ pc' = [pc EXCEPT ![t] = "ensure_check"]
    /\ UNCHANGED <<store_vars, lock, op, ret, ghost_vars>>

\* database.py 45-46: the check without the lock
EnsureCheck(t) ==
    /\ pc[t] = "ensure_check"
    /\ pc' = [pc EXCEPT ![t] = IF loaded THEN "op_lock" ELSE "ensure_lock"]
    /\ UNCHANGED <<store_vars, lock, op, ret, calls, ghost_vars>>

\* database.py 48: with self._lock
EnsureAcquire(t) ==
    /\ pc[t] = "ensure_lock"
    /\ lock = 0
    /\ lock' = t
    /\ pc' = [pc EXCEPT ![t] = "ensure_body"]
    /\ UNCHANGED <<store_vars, op, ret, calls, ghost_vars>>

\* the check under the lock left out
must_load_unchecked(is_loaded) == TRUE
\* database.py 49: whether the caller holding the lock still has to load
must_load(is_loaded) == ~is_loaded

\* database.py 49-50: the check under the lock finds the store loaded
EnsureRecheck(t) ==
    /\ pc[t] = "ensure_body"
    /\ ~must_load(loaded)
    /\ lock' = 0
    /\ pc' = [pc EXCEPT ![t] = "op_lock"]
    /\ UNCHANGED <<store_vars, op, ret, calls, ghost_vars>>

\* how a load from the chunk directory ended, and the rows it could accept
chunks_outcome(src) ==
    IF src.state = "error" THEN "raised"
    ELSE IF src.state = "missing" \/ src.files = <<>> THEN "missing"
    ELSE IF \E k \in 1..Len(src.files) : ~src.files[k].readable THEN "skipped"
    ELSE "ok"
RECURSIVE chunks_kept(_, _)
chunks_kept(files, k) ==
    IF k = 0 THEN 0
    ELSE chunks_kept(files, k - 1)
         + (IF files[k].readable THEN GoodRows(files[k].rows) ELSE 0)
\* how a load from the single file ended, and the rows it could accept
csv_outcome(src) ==
    IF src.state = "no_encoding" THEN "raised"
    ELSE IF src.state = "missing" THEN "missing"
    ELSE IF src.fail_at > 0 THEN "partial"
    ELSE "ok"
csv_kept(src) ==
    IF src.fail_at > 0
    THEN GoodRows(SubSeq(src.rows, 1, (src.fail_at - 1) * load_chunk_size))
    ELSE GoodRows(src.rows)

\* a load that is tried again after it raised
loaded_after_retrying(raised) == ~raised
\* database.py 57, 61: _loaded after the load, whether or not it raised
loaded_after(raised) == TRUE

\* the lock let go while the load runs
lock_during_load_released(t) == 0
\* database.py 48-61: the load runs inside `with self._lock`
lock_during_load(t) == t
\* the lock kept when the load raised
lock_after_load_kept_on_error(t, raised) == IF raised THEN t ELSE 0
\* database.py 48, 58-61: leaving the with block releases the lock, also
\* after the except branch
lock_after_load(t, raised) == 0

\* database.py 78-98, 140-165: the list while the load is appending to it
PartialLoads(r) == {SubSeq(r.movies, 1, k) : k \in 0..Len(r.movies)}

\* database.py 52-55, 78-98, 140-165: the load has started and appended some
\* of its records; the caller holds the lock
EnsureLoadStart(t, src, r) ==
    /\ \E partial \in PartialLoads(r) : movies' = partial
    /\ lock' = lock_during_load(t)
    /\ pc' = [pc EXCEPT ![t] = "loading"]
    /\ op' = [op EXCEPT ![t] = [name |-> "load", src |-> src]]
    /\ UNCHANGED <<next_id, loaded, use_chunks, ret, calls, ghost_vars>>

EnsureLoadChunks(t) ==
    /\ pc[t] = "ensure_body"
    /\ must_load(loaded)
    /\ use_chunks
    /\ \E src \in ChunkSources :
          EnsureLoadStart(t, src, load_from_chunks(src, <<>>, next_id))

EnsureLoadCsv(t) ==
    /\ pc[t] = "ensure_body"
    /\ must_load(loaded)
    /\ ~use_chunks
    /\ \E src \in CsvSources :
          EnsureLoadStart(t, src, load_from_csv_chunked(src, <<>>, next_id))

\* database.py 52-61: the end of the load, under the lock
EnsureLoadWith(t, src, r, outcome, kept) ==
    /\ movies' = IF r.raised THEN <<>> ELSE r.movies
    /\ next_id' = r.next_id
    /\ loaded' = loaded_after(r.raised)
    /\ lock' = lock_after_load(t, r.raised)
    /\ pc' = [pc EXCEPT ![t] = "op_lock"]
    /\ op' = [op EXCEPT ![t] = NoOp]
    /\ load_runs' = load_runs + 1
    /\ load_outcome' = outcome
    /\ load_kept' = kept
    /\ ever_held' = ever_held \cup IdsOf(movies')
    /\ UNCHANGED <<use_chunks, ret, calls, created>>

\* database.py 56-61: the load routine returns or raises
EnsureLoadEnd(t) ==
    /\ pc[t] = "loading"
    /\ LET src == op[t].src
       IN  IF use_chunks
           THEN EnsureLoadWith(t, src, load_from_chunks(src, <<>>, next_id),
                               chunks_outcome(src),
                               chunks_kept(src.files, Len(src.files)))
           ELSE EnsureLoadWith(t, src, load_from_csv_chunked(src, <<>>, next_id),
                               csv_outcome(src), csv_kept(src))

\* the with self._lock of the store method itself
OpAcquire(t) ==
    /\ pc[t] = "op_lock"
    /\ lock = 0
    /\ lock' = t
    /\ pc' = [pc EXCEPT ![t] = "op_body"]
    /\ UNCHANGED <<store_vars, op, ret, calls, ghost_vars>>

\* the end of a store method's body: the lock is released, the value returned
Finish(t, call, value) ==
    /\ lock' = 0
    /\ pc' = [pc EXCEPT ![t] = "done"]
    /\ op' = [op EXCEPT ![t] = call]
    /\ ret' = [ret EXCEPT ![t] = value]

\* database.py 187-195
GetMoviesPaginated(t) ==
    /\ pc[t] = "op_body"
    /\ \E page \in 1..MaxPage, size \in 1..MaxSize, filters \in FilterArgs :
          Finish(t, [name |-> "get_movies_paginated", page |-> page,
                     size |-> size, filters |-> filters],
                 get_movies_paginated(movies, page, size, filters))
    /\ UNCHANGED <<store_vars, calls, ghost_vars>>

\* database.py 279-309
CreateMovie(t) ==
    /\ pc[t] = "op_body"
    /\ \E command \in CreateCommands :
          LET r == create_movie(movies, next_id, command)
          IN  /\ movies' = r.movies
              /\ next_id' = r.next_id
              /\ created' = Append(created, r.ret)
              /\ ever_held' = ever_held \cup {r.ret}
              /\ Finish(t, [name |-> "create_movie", command |-> command],
                        [movie_id |-> r.ret])
    /\ UNCHANGED <<loaded, use_chunks, calls, load_runs, load_outcome, load_kept>>

\* database.py 315-333
UpdateMovie(t) ==
    /\ pc[t] = "op_body"
    /\ \E id \in 1..MaxId, command \in UpdateCommands :
          LET r == update_movie(movies, id, command)
          IN  /\ movies' = r.movies
              /\ Finish(t, [name |-> "update_movie", id |-> id,
                            command |-> command], [success |-> r.ret])
    /\ UNCHANGED <<next_id, loaded, use_chunks, calls, ghost_vars>>

\* database.py 339-348
DeleteMovie(t) ==
    /\ pc[t] = "op_body"
    /\ \E id \in 1..MaxId :
          LET r == delete_movie(movies, id)
          IN  /\ movies' = r.movies
              /\ Finish(t, [name |-> "delete_movie", id |-> id],
                        [success |-> r.ret])
    /\ UNCHANGED <<next_id, loaded, use_chunks, calls, ghost_vars>>

\* database.py 354-358
GetMovieById(t) ==
    /\ pc[t] = "op_body"
    /\ \E id \in 1..MaxId :
          Finish(t, [name |-> "get_movie_by_id", id |-> id],
                 [movie |-> get_movie_by_id(movies, id)])
    /\ UNCHANGED <<store_vars, calls, ghost_vars>>

\* the caller has its result; the thread is free for the next request
Return(t) ==
    /\ pc[t] = "done"
    /\ pc' = [pc EXCEPT ![t] = "idle"]
    /\ op' = [op EXCEPT ![t] = NoOp]
    /\ ret' = [ret EXCEPT ![t] = NoRet]
    /\ UNCHANGED <<store_vars, lock, calls, ghost_vars>>

Next ==
    \E t \in Threads :
        \/ Call(t)
        \/ EnsureCheck(t)
        \/ EnsureAcquire(t)
        \/ EnsureRecheck(t)
        \/ EnsureLoadChunks(t)
        \/ EnsureLoadCsv(t)
        \/ EnsureLoadEnd(t)
        \/ OpAcquire(t)
        \/ GetMoviesPaginated(t)
        \/ CreateMovie(t)
        \/ UpdateMovie(t)
        \/ DeleteMovie(t)
        \/ GetMovieById(t)
        \/ Return(t)

Spec == Init /\ [][Next]_vars

\* what a thread does once its call has started; the scheduler lets every
\* thread that can take a step take one eventually
Progress(t) ==
    \/ EnsureCheck(t)
    \/ EnsureAcquire(t)
    \/ EnsureRecheck(t)
    \/ EnsureLoadChunks(t)
    \/ EnsureLoadCsv(t)
    \/ EnsureLoadEnd(t)
    \/ OpAcquire(t)
    \/ GetMoviesPaginated(t)
    \/ CreateMovie(t)
    \/ UpdateMovie(t)
    \/ DeleteMovie(t)
    \/ GetMovieById(t)

FairSpec == Spec /\ \A t \in Threads : WF_pc(Progress(t))


\* ============================================================== properties
\* thread t runs the body of the store method `name` in this step
BodyStep(t, name) ==
    pc[t] = "op_body" /\ pc'[t] = "done" /\ op'[t].name = name
\* a bulk load routine runs in this step
LoadStep == load_runs' # load_runs

UniqueIds(movies0) ==
    \A i, j \in 1..Len(movies0) : i # j => movies0[i].id # movies0[j].id

\* C1: create_movie, update_movie and delete_movie keep the ids of the store's
\* records pairwise distinct, and the id a create_movie returns was never held
\* by an earlier record, deleted ones included.
C1_IdsUniqueNeverReused ==
    [][\A t \in Threads :
          /\ (BodyStep(t, "create_movie") \/ BodyStep(t, "update_movie")
              \/ BodyStep(t, "delete_movie"))
             => (UniqueIds(movies) => UniqueIds(movies'))
          /\ BodyStep(t, "create_movie") => ret'[t].movie_id \notin ever_held]_vars

\* C2: after a bulk load that skipped any subset of rows, the loaded records
\* have pairwise distinct ids and _next_id is greater than each of them.
C2_LoadedIdsDistinctBelowNext ==
    (loaded /\ created = <<>>) =>
        /\ UniqueIds(movies)
        /\ \A i \in 1..Len(movies) : movies[i].id < next_id

\* C3: the ids returned by create_movie calls of concurrent callers are
\* strictly increasing in the order the calls took the lock, so no two calls
\* return the same id.
C3_CreatedIdsIncrease ==
    /\ \A i, j \in 1..Len(created) : i < j => created[i] < created[j]
    /\ \A t, u \in Threads :
          (t # u /\ pc[t] = "done" /\ pc[u] = "done"
           /\ op[t].name = "create_movie" /\ op[u].name = "create_movie")
          => ret[t] # ret[u]
\* two callers have both just returned from create_movie
C3_Witness ==
    /\ \A t \in Threads : pc[t] = "done" /\ op[t].name = "create_movie"
    /\ Len(created) = 2

\* C4: the bulk load routine runs exactly once: never twice, and every caller
\* that is past _ensure_loaded finds the store loaded by that one run.
C4_LoadRunsOnce ==
    /\ load_runs <= 1
    /\ loaded <=> load_runs = 1
    /\ \A t \in Threads : pc[t] \in {"op_lock", "op_body", "done"} => loaded
\* a caller that saw _loaded unset holds the lock and finds the store loaded
C4_Witness ==
    \E t \in Threads : pc[t] = "ensure_body" /\ loaded /\ load_runs = 1


EmptyPage == [items |-> <<>>, total |-> 0]

\* C5 as claimed: whenever the bulk load fails (source missing, unreadable, no
\* encoding parses a sample, or reading fails part-way), the store is marked
\* loaded and holds zero records.
C5_FailedLoadLeavesEmptyStore ==
    [][(LoadStep /\ load_outcome' \in {"missing", "raised", "partial"})
          => (loaded' /\ movies' = <<>>)]_vars

\* C5 as amended: after a bulk load that fails the store is marked loaded and
\* the load is never run again; the store holds zero records when the source
\* is missing or the load raises before reading a row, and holds the accepted
\* rows of the pages or chunk files that could be read when reading fails
\* part-way or a chunk file cannot be read;
\* a read on the empty store returns the empty page.
C5_FailedLoadDegrades ==
    [][/\ LoadStep =>
            /\ loaded'
            /\ load_outcome' \in {"missing", "raised"} => movies' = <<>>
            /\ load_outcome' \in {"partial", "skipped"}
                  => Len(movies') = load_kept'
       /\ loaded => (loaded' /\ ~LoadStep)
       /\ \A t \in Threads :
             (BodyStep(t, "get_movies_paginated") /\ movies = <<>>)
             => ret'[t] = EmptyPage]_vars
\* the load raised, and the read that followed it has returned the empty page
C5_Witness ==
    \E t \in Threads :
        /\ load_outcome = "raised" /\ loaded
        /\ pc[t] = "done" /\ op[t].name = "get_movies_paginated"
        /\ ret[t] = EmptyPage

\* ceiling(total / size)
PageCount(total, size) == (total + size - 1) \div size
RECURSIVE PagesUpTo(_, _, _, _)
\* the items of pages 1..n, one page after the other
PagesUpTo(movies0, n, size, filters) ==
    IF n = 0 THEN <<>>
    ELSE PagesUpTo(movies0, n - 1, size, filters)
         \o get_movies_paginated(movies0, n, size, filters).items

\* C6: for the store as it is and any filters and size, every page holds at
\* most size items and pages 1..ceiling(total/size), one after the other, are
\* exactly the filtered list.
C6_PagesPartitionFilteredList ==
    \A filters \in FilterArgs, size \in 1..MaxSize :
        LET total == get_movies_paginated(movies, 1, size, filters).total
            pages == PageCount(total, size)
        IN  /\ \A page \in 1..(pages + 1) :
                  Len(get_movies_paginated(movies, page, size, filters).items)
                      <= size
            /\ PagesUpTo(movies, pages, size, filters)
                   = apply_filters(movies, filters)
\* a caller got a non-empty second page of a filtered list
C6_Witness ==
    \E t \in Threads :
        /\ pc[t] = "done" /\ op[t].name = "get_movies_paginated"
        /\ op[t].page = 2 /\ op[t].filters # None
        /\ ret[t].items # <<>>

\* the positions of the records that pass the filters, each tested alone
MatchingPositions(movies0, filters) ==
    {i \in 1..Len(movies0) : apply_filters(<<movies0[i]>>, filters) # <<>>}
\* the k-th smallest element of a set of positions
RECURSIVE KthPosition(_, _)
KthPosition(P, k) ==
    LET least == CHOOSE i \in P : \A j \in P : i <= j
    IN  IF k = 1 THEN least ELSE KthPosition(P \ {least}, k - 1)

\* C7: get_movies_paginated returns as total the number of records that pass
\* the filters, and as items the matching records at offsets (page-1)*size up
\* to but excluding (page-1)*size+size of the matching records in store order.
C7_PageAndTotal ==
    [][\A t \in Threads : BodyStep(t, "get_movies_paginated") =>
          LET P == MatchingPositions(movies, op'[t].filters)
              start == (op'[t].page - 1) * op'[t].size
              items == ret'[t].items
          IN  /\ ret'[t].total = Cardinality(P)
              /\ Len(items) = Max(0, Min(op'[t].size, Cardinality(P) - start))
              /\ \A k \in 1..Len(items) :
                    items[k] = movies[KthPosition(P, start + k)]]_vars
\* a filter left out some records and the caller got a page of the rest
C7_Witness ==
    \E t \in Threads :
        /\ pc[t] = "done" /\ op[t].name = "get_movies_paginated"
        /\ op[t].filters # None
        /\ ret[t].total > 0 /\ ret[t].total < Len(movies)
        /\ Len(ret[t].items) < ret[t].total

\* C8: right after create_movie, get_movie_by_id on the returned id yields a
\* record with that id, the command's catalog fields, is_favorite false and
\* no personal rating or notes.
C8_CreateThenGet ==
    [][\A t \in Threads : BodyStep(t, "create_movie") =>
          LET got == get_movie_by_id(movies', ret'[t].movie_id)
          IN  /\ got # None
              /\ Val(got).id = ret'[t].movie_id
              /\ \A f \in CatalogFields : Val(got)[f] = op'[t].command[f]
              /\ Val(got).is_favorite = FALSE
              /\ Val(got).personal_rating = None
              /\ Val(got).personal_notes = None]_vars

UpdatableFields ==
    {"title", "overview", "is_favorite", "personal_rating", "personal_notes"}

\* C9: update_movie on an id in the store changes only the first record with
\* that id, and of it only fields the command provides; the other records,
\* their order and _next_id stay as they were.  On an id not in the store it
\* returns false and changes nothing.
C9_UpdateFrame ==
    [][\A t \in Threads : BodyStep(t, "update_movie") =>
          LET i == FirstIndex(movies, op'[t].id)
              command == op'[t].command
          IN  /\ next_id' = next_id
              /\ i = 0 => (ret'[t].success = FALSE /\ movies' = movies)
              /\ i # 0 =>
                    /\ ret'[t].success = TRUE
                    /\ Len(movies') = Len(movies)
                    /\ \A j \in 1..Len(movies) : j # i => movies'[j] = movies[j]
                    /\ \A f \in (CatalogFields \cup PersonalFields \cup {"id"})
                                    \ UpdatableFields :
                          movies'[i][f] = movies[i][f]
                    /\ \A f \in UpdatableFields :
                          ~command[f].given => movies'[i][f] = movies[i][f]]_vars
\* an update that names only is_favorite has set it on a record
C9_Witness ==
    \E t \in Threads :
        /\ pc[t] = "done" /\ op[t].name = "update_movie" /\ ret[t].success
        /\ ~op[t].command.title.given /\ op[t].command.is_favorite.given
        /\ \E i \in 1..Len(movies) :
              movies[i].id = op[t].id /\ movies[i].is_favorite

\* C10: an update that provides personal_rating (or personal_notes) as null
\* leaves that field null, and an update that omits it leaves it unchanged.
C10_NullClearsOmittedKeeps ==
    [][\A t \in Threads : BodyStep(t, "update_movie") =>
          LET i == FirstIndex(movies, op'[t].id)
              command == op'[t].command
          IN  i # 0 =>
                \A f \in {"personal_rating", "personal_notes"} :
                    /\ (command[f].given /\ command[f].val = None)
                          => movies'[i][f] = None
                    /\ ~command[f].given => movies'[i][f] = movies[i][f]]_vars

stats_size == 2        \* the size get_stats asks for, scaled down from 99999
top_genres_limit == 10 \* main.py 176: [:10]

Unknown == <<"U", "n", "k", "n", "o", "w", "n">>
\* main.py 172: genre.get("name", "Unknown")
genre_name(genre) == IF genre.name = None THEN Unknown ELSE Val(genre.name)

\* main.py 170-171: the genre entries of all_movies[1..n], in loop order
RECURSIVE genre_entries(_, _)
genre_entries(all_movies, n) ==
    IF n = 0 THEN <<>>
    ELSE genre_entries(all_movies, n - 1)
         \o [k \in 1..Len(all_movies[n].genres) |->
                genre_name(all_movies[n].genres[k])]

\* counts[key] = counts.get(key, 0) + 1 on a dict, kept as the sequence of
\* its items in insertion order
count_one(counts, key) ==
    IF \E k \in 1..Len(counts) : counts[k].key = key
    THEN [k \in 1..Len(counts) |->
            IF counts[k].key = key
            THEN [key |-> key, count |-> counts[k].count + 1]
            ELSE counts[k]]
    ELSE Append(counts, [key |-> key, count |-> 1])
\* main.py 169-173, 179-187: the dict after counting keys[1..n]
RECURSIVE count_keys(_, _)
count_keys(keys, n) ==
    IF n = 0 THEN <<>> ELSE count_one(count_keys(keys, n - 1), keys[n])

\* sorted() is stable: an item goes after every item that does not come
\* after it.  main.py 176: sorted(items, key=lambda x: x[1], reverse=True)
insert_by_count_desc(sorted, item) ==
    LET at == Cardinality({k \in 1..Len(sorted) : sorted[k].count >= item.count})
    IN  SubSeq(sorted, 1, at) \o <<item>> \o SubSeq(sorted, at + 1, Len(sorted))
RECURSIVE sorted_by_count_desc(_, _)
sorted_by_count_desc(items, n) ==
    IF n = 0 THEN <<>>
    ELSE insert_by_count_desc(sorted_by_count_desc(items, n - 1), items[n])
\* main.py 194: sorted(year_counts.items()); the keys of a dict are distinct
insert_by_key(sorted, item) ==
    LET at == Cardinality({k \in 1..Len(sorted) : sorted[k].key <= item.key})
    IN  SubSeq(sorted, 1, at) \o <<item>> \o SubSeq(sorted, at + 1, Len(sorted))
RECURSIVE sorted_by_key(_, _)
sorted_by_key(items, n) ==
    IF n = 0 THEN <<>>
    ELSE insert_by_key(sorted_by_key(items, n - 1), items[n])

\* main.py 180-187: the decades of all_movies[1..n] whose year parses
RECURSIVE decades(_, _)
decades(all_movies, n) ==
    IF n = 0 THEN <<>>
    ELSE LET release_date == all_movies[n].release_date
             year == IF TruthyStr(release_date)
                     THEN ParseInt(FirstSegment(Val(release_date)))
                     ELSE None
         IN  decades(all_movies, n - 1)
             \o (IF year = None THEN <<>> ELSE <<(Val(year) \div 10) * 10>>)

\* main.py 165-195: the statistics of the records get_stats was handed
compute_stats(all_movies, total_count) ==
    LET genres == genre_entries(all_movies, Len(all_movies))
        genre_counts == count_keys(genres, Len(genres))
        years == decades(all_movies, Len(all_movies))
        year_counts == count_keys(years, Len(years))
    IN  [total_movies |-> total_count,
         favorites_count |->
             Cardinality({i \in 1..Len(all_movies) : all_movies[i].is_favorite}),
         rated_count |->
             Cardinality({i \in 1..Len(all_movies) :
                              all_movies[i].personal_rating # None}),
         top_genres |->
             Slice(sorted_by_count_desc(genre_counts, Len(genre_counts)),
                   0, top_genres_limit),
         decade_distribution |-> sorted_by_key(year_counts, Len(year_counts))]
\* main.py 160-195: page 1 of size 99999 of the unfiltered store
get_stats(movies0) ==
    LET page == get_movies_paginated(movies0, 1, stats_size, None)
    IN  compute_stats(page.items, page.total)

\* ------------------------------------- filtering and statistics on a store
\* A store that was loaded and updated, and the filters and the statistics
\* computed on it.
MaxList == 3         \* records of the store

Str2(a, b) == <<a, b>>
Str3(a, b, c) == <<a, b, c>>
Named(name) == [name |-> Some(name)]
\* a record of the store: the catalog fields, and the personal fields as
\* update_movie set them
StoredMovie(data, is_favorite, personal_rating) ==
    [from_csv_row([bad |-> FALSE, data |-> data], 0)
        EXCEPT !.is_favorite = is_favorite,
               !.personal_rating = personal_rating]

\* two entries of one genre, a date that is only a year, no vote average
CatOx ==
    [CatUp EXCEPT !.title = Str2("O", "x"), !.overview = None, !.cast = <<>>,
                  !.genres = <<Named(Str3("C", "o", "m")),
                               Named(Str3("C", "o", "m"))>>,
                  !.release_date = Some(<<"1", "9", "9", "4">>),
                  !.vote_average = None, !.runtime = Some(0),
                  !.original_language = None]
\* eleven genres, a date whose first segment is no number
CatAd ==
    [CatUp EXCEPT !.title = Str2("A", "d"),
                  !.genres = <<Named(<<"a">>), Named(<<"b">>), Named(<<"c">>),
                               Named(<<"d">>), Named(<<"e">>), Named(<<"f">>),
                               Named(<<"g">>), Named(<<"h">>), Named(<<"i">>),
                               Named(<<"j">>), Named(<<"k">>)>>,
                  !.release_date = Some(<<"x", "-", "0", "1">>),
                  !.vote_average = Some(5), !.runtime = Some(120)]
\* no genre, a year written as int() still accepts it
CatEl ==
    [CatUp EXCEPT !.title = Str2("E", "l"), !.genres = <<>>,
                  !.release_date =
                      Some(<<" ", "+", "1", "_", "9", "8", "7", " ", "-", "1">>),
                  !.vote_average = Some(10), !.runtime = None]
\* an empty date
CatNo ==
    [CatIt EXCEPT !.title = Str2("N", "o"),
                  !.genres = <<Named(Str3("A", "c", "t"))>>,
                  !.release_date = Some(<<>>),
                  !.vote_average = Some(6), !.runtime = Some(90),
                  !.original_language = Some(Str2("e", "n"))]

QueryRecords ==
    {StoredMovie(CatUp, TRUE, Some(7)), StoredMovie(CatIt, FALSE, None),
     StoredMovie(CatOx, TRUE, Some(0)), StoredMovie(CatAd, FALSE, Some(3)),
     StoredMovie(CatEl, FALSE, None), StoredMovie(CatNo, TRUE, Some(9))}

\* The MovieFilters objects create_filters builds from the query parameters.
FilterCases ==
    {None, Some(NoFilters),
     Some([NoFilters EXCEPT !.search = Some(Str2("s", "K"))]),
     Some([NoFilters EXCEPT !.search = Some(<<>>)]),
     Some([NoFilters EXCEPT !.genres = Some(<<Str3("A", "c", "t"),
                                              Str3("C", "o", "m")>>)]),
     Some([NoFilters EXCEPT !.genres = Some(<<Str3("c", "o", "m")>>)]),
     Some([NoFilters EXCEPT !.genres = Some(<<Str3("A", "C", "T")>>)]),
     Some([NoFilters EXCEPT !.genres = Some(<<>>)]),
     Some([NoFilters EXCEPT !.year_from = Some(0)]),
     Some([NoFilters EXCEPT !.year_to = Some(0)]),
     Some([NoFilters EXCEPT !.year_from = Some(1990)]),
     Some([NoFilters EXCEPT !.year_to = Some(2000)]),
     Some([NoFilters EXCEPT !.year_from = Some(1990), !.year_to = Some(2000)]),
     Some([NoFilters EXCEPT !.year_from = Some(0), !.year_to = Some(2000)]),
     Some([NoFilters EXCEPT !.rating_from = Some(0)]),
     Some([NoFilters EXCEPT !.rating_from = Some(6)]),
     Some([NoFilters EXCEPT !.rating_to = Some(10)]),
     Some([NoFilters EXCEPT !.runtime_from = Some(0)]),
     Some([NoFilters EXCEPT !.runtime_to = Some(100)]),
     Some([NoFilters EXCEPT !.language = Some(Str2("e", "n"))]),
     Some([NoFilters EXCEPT !.language = Some(<<>>)]),
     Some([NoFilters EXCEPT !.is_favorite = Some(TRUE)]),
     Some([NoFilters EXCEPT !.is_favorite = Some(FALSE)]),
     Some([NoFilters EXCEPT !.personal_rating_from = Some(0)]),
     Some([NoFilters EXCEPT !.personal_rating_to = Some(8)]),
     Some([NoFilters EXCEPT !.genres = Some(<<Str3("c", "o", "m")>>),
                            !.is_favorite = Some(TRUE),
                            !.rating_from = Some(6)]),
     Some([NoFilters EXCEPT !.language = Some(Str2("e", "n")),
                            !.year_from = Some(1990),
                            !.runtime_to = Some(100)]),
     Some([NoFilters EXCEPT !.search = Some(Str2("s", "K")),
                            !.personal_rating_from = Some(0),
                            !.rating_to = Some(10)])}

\* a store whose load accepted up to MaxList rows (ids 1, 2, ...) and whose
\* records were updated since
QueryInit ==
    /\ \E rows \in SeqsUpTo(QueryRecords, MaxList) :
          movies = [i \in 1..Len(rows) |-> [rows[i] EXCEPT !.id = i]]
    /\ next_id = Len(movies) + 1
    /\ loaded = TRUE
    /\ lock = 0
    /\ use_chunks = TRUE
    /\ pc = [t \in Threads |-> "idle"]
    /\ op = [t \in Threads |-> NoOp]
    /\ ret = [t \in Threads |-> NoRet]
    /\ calls = 0
    /\ load_runs = 1
    /\ load_outcome = "ok"
    /\ load_kept = Len(movies)
    /\ created = <<>>
    /\ ever_held = IdsOf(movies)

\* database.py 187-188: the filters applied to a copy of the store's list
ApplyFilters ==
    /\ \E filters \in FilterCases :
          /\ op' = [op EXCEPT ![1] = [name |-> "apply_filters",
                                      filters |-> filters]]
          /\ ret' = [ret EXCEPT ![1] = apply_filters(movies, filters)]
    /\ UNCHANGED <<store_vars, lock, pc, calls, ghost_vars>>

\* main.py 160-195
GetStats ==
    /\ op' = [op EXCEPT ![1] = [name |-> "get_stats"]]
    /\ ret' = [ret EXCEPT ![1] = get_stats(movies)]
    /\ UNCHANGED <<store_vars, lock, pc, calls, ghost_vars>>

QueryNext == ApplyFilters \/ GetStats

QuerySpec == QueryInit /\ [][QueryNext]_vars

\* ------------------------------------------- properties of the filters
\* the filters were applied to the store: op[1] holds them, ret[1] the result
Applied == op[1].name = "apply_filters"
Provided == Applied /\ op[1].filters # None

\* C12: _apply_filters with no filters object, or with one in which every
\* predicate group is absent, returns the input list: the same records in the
\* same order.
C12_NoGroupsIsIdentity ==
    (Applied /\ op[1].filters \in {None, Some(NoFilters)}) => ret[1] = movies
\* filters with every group absent were applied to a store with favorites and
\* other records
C12_Witness ==
    /\ Applied /\ op[1].filters = Some(NoFilters)
    /\ ret[1] = movies
    /\ \E i, j \in 1..Len(movies) :
          movies[i].is_favorite /\ ~movies[j].is_favorite

\* the numeric attributes with a range, and the bounds on each
RangeBounds ==
    {[attr |-> "vote_average", from |-> "rating_from", to |-> "rating_to"],
     [attr |-> "runtime", from |-> "runtime_from", to |-> "runtime_to"],
     [attr |-> "personal_rating", from |-> "personal_rating_from",
      to |-> "personal_rating_to"]}

\* C13: for vote_average, runtime and personal_rating: whenever a lower or an
\* upper bound on the attribute is provided, however wide, no record whose
\* value for the attribute is absent is in the result.
C13_AbsentValueExcluded ==
    Provided =>
        \A b \in RangeBounds :
            (Val(op[1].filters)[b.from] # None \/ Val(op[1].filters)[b.to] # None)
            => \A k \in 1..Len(ret[1]) : ret[1][k][b.attr] # None
\* an upper bound no vote average exceeds left out a record without one and
\* kept another record
C13_Witness ==
    /\ Provided /\ Val(op[1].filters).rating_to = Some(10)
    /\ \E i \in 1..Len(movies) : movies[i].vote_average = None
    /\ ret[1] # <<>>

\* equality of two strings, ignoring the case of the letters
SameLetter(c, d) ==
    \/ c = d
    \/ c \in DOMAIN UpperToLower /\ UpperToLower[c] = d
    \/ d \in DOMAIN UpperToLower /\ UpperToLower[d] = c
EqualIgnoringCase(a, b) ==
    Len(a) = Len(b) /\ \A j \in 1..Len(a) : SameLetter(a[j], b[j])
\* one of the record's genre entries has one of the requested names
HasRequestedGenre(movie, names) ==
    \E i \in 1..Len(movie.genres), k \in 1..Len(names) :
        /\ movie.genres[i].name # None
        /\ EqualIgnoringCase(Val(movie.genres[i].name), names[k])

\* the filters with only the fields of one group kept
OnlyGroup(f, G) == [k \in DOMAIN f |-> IF k \in G THEN f[k] ELSE None]

\* C14: with a non-empty genre list, the records the genre group keeps are
\* those with a genre entry whose name equals, ignoring case, one of the
\* requested names (OR across the requested names).
C14_GenreAnyIgnoringCase ==
    (Provided /\ Val(op[1].filters).genres \notin {None, Some(<<>>)}) =>
        LET f == Val(op[1].filters)
            names == Val(f.genres)
        IN  /\ \A k \in 1..Len(ret[1]) : HasRequestedGenre(ret[1][k], names)
            /\ f = OnlyGroup(f, {"genres"}) =>
                  ret[1] = SelectSeq(movies,
                               LAMBDA m : HasRequestedGenre(m, names))
\* the list [Act, Com] kept a record whose only genre is Com and left out
\* another record; for the list [com], written in lower case, see CatUp too
C14_Witness ==
    /\ Provided
    /\ Val(op[1].filters).genres = Some(<<Str3("A", "c", "t"), Str3("C", "o", "m")>>)
    /\ \E k \in 1..Len(ret[1]) :
          ret[1][k].genres = <<Named(Str3("C", "o", "m"))>>
    /\ Len(ret[1]) < Len(movies)

\* the year a record's release date starts with, None when there is none
LeadingYear(movie) ==
    IF movie.release_date = None THEN None
    ELSE ParseInt(FirstSegment(Val(movie.release_date)))
\* C15: whenever year_from or year_to is provided, whatever its value, the
\* year group keeps exactly the records whose release date starts with a
\* year y that parses, with y >= year_from if provided and y <= year_to if
\* provided.
C15_YearBounds ==
    (Provided /\ (Val(op[1].filters).year_from # None
                  \/ Val(op[1].filters).year_to # None)
     /\ Val(op[1].filters) = OnlyGroup(Val(op[1].filters), {"year_from", "year_to"}))
    => LET f == Val(op[1].filters)
       IN  ret[1] = SelectSeq(movies,
               LAMBDA m :
                   /\ LeadingYear(m) # None
                   /\ f.year_from # None => Val(LeadingYear(m)) >= Val(f.year_from)
                   /\ f.year_to # None => Val(LeadingYear(m)) <= Val(f.year_to))

RECURSIVE IsSubsequence(_, _)
\* a is b with some of its elements left out
IsSubsequence(a, b) ==
    IF a = <<>> THEN TRUE
    ELSE IF b = <<>> THEN FALSE
    ELSE IF Head(a) = Head(b) THEN IsSubsequence(Tail(a), Tail(b))
    ELSE IsSubsequence(a, Tail(b))

\* C16: for every store and filters, the result of _apply_filters is a
\* subsequence of the store's list - only records of the store, each at most
\* once, in the store's order - and filtering leaves the store's list as it
\* was.
C16_ResultIsSubsequence ==
    [][op'[1].name = "apply_filters" =>
          /\ IsSubsequence(ret'[1], movies)
          /\ \A j, k \in 1..Len(ret'[1]) : j # k => ret'[1][j] # ret'[1][k]
          /\ movies' = movies]_vars
\* several groups together kept some records of the store and left out others
C16_Witness ==
    /\ Provided
    /\ Val(op[1].filters).genres # None /\ Val(op[1].filters).is_favorite # None
    /\ ret[1] # <<>> /\ Len(ret[1]) < Len(movies)
    /\ ret[1][1] # movies[1]

\* the predicate groups of the filters
FilterGroups ==
    {{"search"}, {"genres"}, {"year_from", "year_to"},
     {"rating_from", "rating_to"}, {"runtime_from", "runtime_to"},
     {"language"}, {"is_favorite"},
     {"personal_rating_from", "personal_rating_to"}}
InSeq(x, seq) == \E k \in 1..Len(seq) : seq[k] = x
\* the groups applied in the opposite order
apply_filters_backwards(movies0, f) ==
    search_filter(genre_filter(year_filter(rating_from_filter(
      rating_to_filter(runtime_from_filter(runtime_to_filter(
        language_filter(favorite_filter(personal_rating_from_filter(
          personal_rating_to_filter(movies0, f), f), f), f), f), f), f), f),
            f), f), f)

\* C17: the groups compose with AND: a record is in the result of
\* _apply_filters if and only if it is in the result of each group applied
\* alone, and the result is the same with the groups applied in the opposite
\* order.
C17_GroupsComposeByAnd ==
    Provided =>
        LET f == Val(op[1].filters)
        IN  /\ \A i \in 1..Len(movies) :
                  InSeq(movies[i], ret[1]) <=>
                      \A G \in FilterGroups :
                          InSeq(movies[i],
                                apply_filters(movies, Some(OnlyGroup(f, G))))
            /\ ret[1] = apply_filters_backwards(movies, f)
\* three groups were provided, two of which alone leave out different records,
\* and a record passed them all
C17_Witness ==
    /\ Provided /\ ret[1] # <<>>
    /\ LET f == Val(op[1].filters)
       IN  /\ Cardinality({G \in FilterGroups : OnlyGroup(f, G) # NoFilters}) = 3
           /\ \E G, H \in FilterGroups, i, j \in 1..Len(movies) :
                 /\ ~InSeq(movies[i], apply_filters(movies, Some(OnlyGroup(f, G))))
                 /\ InSeq(movies[i], apply_filters(movies, Some(OnlyGroup(f, H))))
                 /\ ~InSeq(movies[j], apply_filters(movies, Some(OnlyGroup(f, H))))
                 /\ InSeq(movies[j], apply_filters(movies, Some(OnlyGroup(f, G))))

\* --------------------------------------- properties of the statistics
\* the statistics of the store were computed: ret[1] holds them
StatsDone == op[1].name = "get_stats"

\* C18: whatever the size of the store, total_movies is the number of its
\* records, favorites_count the number of its records with is_favorite true
\* and rated_count the number of its records with a personal rating, so
\* neither count exceeds total_movies.
C18_CountsOverWholeStore ==
    StatsDone =>
        /\ ret[1].total_movies = Len(movies)
        /\ ret[1].favorites_count =
               Cardinality({i \in 1..Len(movies) : movies[i].is_favorite})
        /\ ret[1].rated_count =
               Cardinality({i \in 1..Len(movies) :
                                movies[i].personal_rating # None})
        /\ ret[1].favorites_count <= ret[1].total_movies
        /\ ret[1].rated_count <= ret[1].total_movies

\* the genre entries of the store's records: record i, entry k
GenreEntries ==
    UNION {{<<i, k>> : k \in 1..Len(movies[i].genres)} : i \in 1..Len(movies)}
GenreOccurrences(name) ==
    {e \in GenreEntries : genre_name(movies[e[1]].genres[e[2]]) = name}
GenreNames == {genre_name(movies[e[1]].genres[e[2]]) : e \in GenreEntries}

\* C19: the count of a genre is the number of genre entries of that name over
\* all records (two entries of one record count twice); top_genres holds at
\* most 10 (name, count) pairs, the 10 first of them if there are more genres,
\* in non-increasing order of count, and no genre left out has a greater
\* count than one that is in.
C19_TopGenres ==
    StatsDone =>
        LET top == ret[1].top_genres
        IN  /\ Len(top) = Min(top_genres_limit, Cardinality(GenreNames))
            /\ \A k \in 1..Len(top) :
                  top[k].count = Cardinality(GenreOccurrences(top[k].key))
            /\ \A j, k \in 1..Len(top) :
                  /\ j < k => top[j].count >= top[k].count
                  /\ j # k => top[j].key # top[k].key
            /\ \A name \in GenreNames :
                  (\A k \in 1..Len(top) : top[k].key # name) =>
                      \A k \in 1..Len(top) :
                          Cardinality(GenreOccurrences(name)) <= top[k].count

\* the decade of a record whose release date starts with a year that parses
DecadeOf(movie) ==
    IF movie.release_date = None
           \/ ParseInt(FirstSegment(Val(movie.release_date))) = None
    THEN None
    ELSE Some((Val(ParseInt(FirstSegment(Val(movie.release_date)))) \div 10) * 10)

\* C20: decade_distribution has one entry for each decade (year // 10) * 10
\* of the records whose release date starts with a year that parses, its
\* count the number of such records of the decade, the entries in ascending
\* order of decade; the other records add to no entry.
C20_DecadeDistribution ==
    StatsDone =>
        LET dist == ret[1].decade_distribution
            Decades == {Val(DecadeOf(movies[i])) :
                           i \in {j \in 1..Len(movies) :
                                     DecadeOf(movies[j]) # None}}
        IN  /\ {dist[k].key : k \in 1..Len(dist)} = Decades
            /\ \A k \in 1..Len(dist) :
                  dist[k].count =
                      Cardinality({i \in 1..Len(movies) :
                                      DecadeOf(movies[i]) = Some(dist[k].key)})
            /\ \A j, k \in 1..Len(dist) : j < k => dist[j].key < dist[k].key

\* ------------------------------------ properties of concurrent callers
\* inside _ensure_loaded's or a method's `with self._lock:` block
InLockedBlock(t) == pc[t] \in {"ensure_body", "loading", "op_body"}
\* a call of t has started and has not returned yet
Started(t) == pc[t] \notin {"idle", "done"}
\* C21: the lock is held only by a caller inside a locked block (never by one
\* that has returned or raised), and under fair scheduling no call stays
\* started for ever and the lock is free again and again: every call returns
\* and every hold of the lock ends, also when the call runs the lazy load and
\* when that load fails.
C21_EveryCallReturns ==
    /\ [](\A t \in Threads : lock = t => InLockedBlock(t))
    /\ \A t \in Threads : []<>(~Started(t))
    /\ []<>(lock = 0)
\* the load raised, the lock is free again and a caller has its result while
\* another one is still on its way
C21_Witness ==
    /\ load_outcome = "raised" /\ lock = 0
    /\ \E t, u \in Threads :
          pc[t] = "done" /\ pc[u] \in {"op_lock", "ensure_lock"}

\* a load is in progress
Loading == \E t \in Threads : pc[t] = "loading"
StoreMethods ==
    {"get_movies_paginated", "get_movie_by_id", "create_movie", "update_movie",
     "delete_movie"}

\* C22: while a caller's bulk load is in progress no other caller reads or
\* changes the record collection: every body of a store method runs on a
\* store whose load has ended, the list changes during a load only by the
\* load, and no record was created before the load ended, so the load loses
\* or overwrites none.
C22_NoAccessDuringLoad ==
    [][/\ \A t \in Threads : \A name \in StoreMethods :
             BodyStep(t, name) => (loaded /\ ~Loading)
       /\ (Loading /\ Loading') => movies' = movies
       /\ Loading => (created = <<>> /\ created' = <<>>)
       /\ LoadStep => (Loading /\ ~Loading')
       /\ (Loading /\ ~Loading') => LoadStep]_vars
\* a load has appended records and not ended, and another caller waits for
\* the lock
C22_Witness ==
    \E t, u \in Threads :
        /\ pc[t] = "loading" /\ movies # <<>> /\ ~loaded
        /\ pc[u] = "ensure_lock"

\* C26: for vote_average, runtime and personal_rating: with bounds on that
\* attribute alone, a record whose value is present (0 included) is in the
\* result if and only if the value is at least the lower bound, when one is
\* given, and at most the upper bound, when one is given.
C26_PresentValueKeptByBounds ==
    Provided =>
        \A b \in RangeBounds :
            LET f == Val(op[1].filters)
            IN  (f = OnlyGroup(f, {b.from, b.to}) /\ f # NoFilters) =>
                    \A i \in 1..Len(movies) :
                        movies[i][b.attr] # None =>
                            (InSeq(movies[i], ret[1]) <=>
                                /\ f[b.from] # None =>
                                      Val(movies[i][b.attr]) >= Val(f[b.from])
                                /\ f[b.to] # None =>
                                      Val(movies[i][b.attr]) <= Val(f[b.to]))

\* -------------------------------------------------- pages past the end
\* C23: a call of get_movies_paginated whose start offset (page - 1) * size is
\* at or beyond the number of filtered records returns no items and the
\* number of filtered records as the total; it returns a value (no error)
\* and leaves the store as it is.
C23_PagePastEndIsEmpty ==
    [][\A t \in Threads :
          BodyStep(t, "get_movies_paginated") =>
              LET call == op'[t]
                  total == Len(apply_filters(movies, call.filters))
              IN  /\ call.filters = None => total = Len(movies)
                  /\ (call.page - 1) * call.size >= total =>
                        /\ ret'[t] = [items |-> <<>>, total |-> total]
                        /\ movies' = movies]_vars
\* a page past the end of a store that has matching records, and the page
\* that starts exactly at the end
C23_Witness ==
    \E t \in Threads :
       /\ pc[t] = "done" /\ op[t].name = "get_movies_paginated"
       /\ ret[t].total > 0 /\ ret[t].items = <<>>
       /\ (op[t].page - 1) * op[t].size = ret[t].total


\* ======================================================= request handlers
\* The handlers of main.py over a loaded store. A handler calls the store's
\* methods; each store call runs under the store's lock and is one step here.
\* Request threads run one handler each; pc[t] is the handler's position,
\* op[t] its arguments and local variables, ret[t] the response.

\* math.ceil(total / size) rounded down instead
pages_rounded_down(total, size) ==
    IF total > 0 THEN total \div size ELSE 1
\* main.py 66, 84, 102: math.ceil(total / size) if total > 0 else 1
pages(total, size) ==
    IF total > 0
    THEN (total \div size) + (IF total % size = 0 THEN 0 ELSE 1)
    ELSE 1

\* main.py 65-73, 83-92, 101-110: PaginatedMovieResponse
paginated_response(movies0, page, size, filters) ==
    LET r == get_movies_paginated(movies0, page, size, filters)
    IN  [status |-> 200, items |-> r.items, total |-> r.total, page |-> page,
         size |-> size, pages |-> pages(r.total, size)]

\* HTTPException(status_code=404, detail="Movie not found")
NotFound == [status |-> 404, detail |-> "Movie not found"]
\* main.py 155: HTTPException(status_code=500, ...)
UpdateFailed == [status |-> 500, detail |-> "Failed to update movie"]
\* main.py 116-118
get_movie_response(movie) ==
    IF movie = None THEN NotFound ELSE [status |-> 200, movie |-> Val(movie)]
\* main.py 130-133
update_movie_response(success) ==
    IF ~success THEN NotFound ELSE [status |-> 200]
\* main.py 139-142
delete_movie_response(success) ==
    IF ~success THEN NotFound ELSE [status |-> 200]

\* the records of the handlers' store: a favorite and one that is none
ApiRecords ==
    {StoredMovie(CatOx, TRUE, Some(0)), StoredMovie(CatIt, FALSE, None)}
\* the filters create_filters builds for the list endpoint
ListFilters ==
    {Some(NoFilters),
     Some([NoFilters EXCEPT !.genres = Some(<<Str3("c", "o", "m")>>)])}
\* the q of the search endpoint
SearchQueries == {Str2("o", "X"), <<>>}

\* a loaded store of up to MaxList records (ids 1, 2, ...), no request yet
ApiInit ==
    /\ \E rows \in SeqsUpTo(ApiRecords, MaxList) :
          movies = [i \in 1..Len(rows) |-> [rows[i] EXCEPT !.id = i]]
    /\ next_id = Len(movies) + 1
    /\ loaded = TRUE
    /\ lock = 0
    /\ use_chunks = TRUE
    /\ pc = [t \in Threads |-> "idle"]
    /\ op = [t \in Threads |-> NoOp]
    /\ ret = [t \in Threads |-> NoRet]
    /\ calls = 0
    /\ load_runs = 1
    /\ load_outcome = "ok"
    /\ load_kept = Len(movies)
    /\ created = <<>>
    /\ ever_held = IdsOf(movies)

\* a handler that has called get_movie_by_id holds the record it got
HoldsMovie(u) == pc[u] \in {"toggle_got", "toggle_command", "toggle_updated"}
\* get_movie_by_id returns the store's own object and update_movie assigns to
\* it in place (database.py 318-327, 355-357): the handlers that hold the
\* record with this id see the assignment
seen_after_update(u, id, movies1) ==
    IF HoldsMovie(u) /\ op[u].id = id /\ FirstIndex(movies1, id) # 0
    THEN [op[u] EXCEPT !.movie = movies1[FirstIndex(movies1, id)]]
    ELSE op[u]

\* the handler of t responds
Respond(t, call, response) ==
    /\ pc' = [pc EXCEPT ![t] = "done"]
    /\ op' = [op EXCEPT ![t] = call]
    /\ ret' = [ret EXCEPT ![t] = response]

\* main.py 58-73
HandleGetMovies(t) ==
    /\ pc[t] = "idle"
    /\ \E page \in 1..MaxPage, size \in 1..MaxSize, filters \in ListFilters :
          Respond(t, [name |-> "get_movies", page |-> page, size |-> size,
                      filters |-> filters],
                  paginated_response(movies, page, size, filters))
    /\ UNCHANGED <<store_vars, lock, calls, ghost_vars>>

\* main.py 76-92
HandleSearchMovies(t) ==
    /\ pc[t] = "idle"
    /\ \E page \in 1..MaxPage, size \in 1..MaxSize, q \in SearchQueries :
          LET filters == Some([NoFilters EXCEPT !.search = Some(q)])
          IN  Respond(t, [name |-> "search_movies", page |-> page,
                          size |-> size, filters |-> filters],
                      paginated_response(movies, page, size, filters))
    /\ UNCHANGED <<store_vars, lock, calls, ghost_vars>>

\* main.py 95-110
HandleGetFavoriteMovies(t) ==
    /\ pc[t] = "idle"
    /\ \E page \in 1..MaxPage, size \in 1..MaxSize :
          LET filters == Some([NoFilters EXCEPT !.is_favorite = Some(TRUE)])
          IN  Respond(t, [name |-> "get_favorite_movies", page |-> page,
                          size |-> size, filters |-> filters],
                      paginated_response(movies, page, size, filters))
    /\ UNCHANGED <<store_vars, lock, calls, ghost_vars>>

\* main.py 113-118
HandleGetMovie(t) ==
    /\ pc[t] = "idle"
    /\ \E id \in 1..MaxId :
          LET movie == get_movie_by_id(movies, id)
          IN  Respond(t, [name |-> "get_movie", id |-> id, result |-> movie],
                      get_movie_response(movie))
    /\ UNCHANGED <<store_vars, lock, calls, ghost_vars>>

\* main.py 127-133
HandleUpdateMovie(t) ==
    /\ pc[t] = "idle"
    /\ \E id \in 1..MaxId, command \in UpdateCommands :
          LET r == update_movie(movies, id, command)
          IN  /\ movies' = r.movies
              /\ pc' = [pc EXCEPT ![t] = "done"]
              /\ op' = [u \in Threads |->
                           IF u = t
                           THEN [name |-> "update_movie", id |-> id,
                                 command |-> command, result |-> r.ret]
                           ELSE seen_after_update(u, id, r.movies)]
              /\ ret' = [ret EXCEPT ![t] = update_movie_response(r.ret)]
    /\ UNCHANGED <<next_id, loaded, use_chunks, lock, calls, ghost_vars>>

\* main.py 136-142
HandleDeleteMovie(t) ==
    /\ pc[t] = "idle"
    /\ \E id \in 1..MaxId :
          LET r == delete_movie(movies, id)
          IN  /\ movies' = r.movies
              /\ Respond(t, [name |-> "delete_movie", id |-> id,
                             result |-> r.ret],
                         delete_movie_response(r.ret))
    /\ UNCHANGED <<next_id, loaded, use_chunks, lock, calls, ghost_vars>>

\* main.py 147-149: movie = db.get_movie_by_id(id)
ToggleGet(t) ==
    /\ pc[t] = "idle"
    /\ \E id \in 1..MaxId :
          LET movie == get_movie_by_id(movies, id)
          IN  IF movie = None
              THEN Respond(t, [name |-> "toggle_favorite", id |-> id], NotFound)
              ELSE /\ pc' = [pc EXCEPT ![t] = "toggle_got"]
                   /\ op' = [op EXCEPT ![t] = [name |-> "toggle_favorite",
                                               id |-> id, movie |-> Val(movie)]]
                   /\ ret' = ret
    /\ UNCHANGED <<store_vars, lock, calls, ghost_vars>>

\* main.py 151: UpdateMovieCommand(is_favorite=not movie.is_favorite)
ToggleCommand(t) ==
    /\ pc[t] = "toggle_got"
    /\ pc' = [pc EXCEPT ![t] = "toggle_command"]
    /\ op' = [op EXCEPT ![t] =
                 [name |-> "toggle_favorite", id |-> op[t].id,
                  movie |-> op[t].movie,
                  update_command |->
                      [NoUpdate EXCEPT !.is_favorite =
                                           Given(Some(~op[t].movie.is_favorite))]]]
    /\ UNCHANGED <<store_vars, lock, ret, calls, ghost_vars>>

\* main.py 152-155: success = db.update_movie(id, update_command)
ToggleUpdate(t) ==
    /\ pc[t] = "toggle_command"
    /\ LET r == update_movie(movies, op[t].id, op[t].update_command)
       IN  /\ movies' = r.movies
           /\ IF ~r.ret
              THEN Respond(t, op[t], UpdateFailed)
              ELSE /\ pc' = [pc EXCEPT ![t] = "toggle_updated"]
                   /\ op' = [u \in Threads |->
                                seen_after_update(u, op[t].id, r.movies)]
                   /\ ret' = ret
    /\ UNCHANGED <<next_id, loaded, use_chunks, lock, calls, ghost_vars>>

\* main.py 157: return {"is_favorite": not movie.is_favorite}
ToggleReturn(t) ==
    /\ pc[t] = "toggle_updated"
    /\ Respond(t, op[t],
               [status |-> 200, is_favorite |-> ~op[t].movie.is_favorite])
    /\ UNCHANGED <<store_vars, lock, calls, ghost_vars>>

ApiNext ==
    \E t \in Threads :
        \/ HandleGetMovie(t)
        \/ HandleUpdateMovie(t)
        \/ HandleDeleteMovie(t)
        \/ ToggleGet(t)
        \/ ToggleCommand(t)
        \/ ToggleUpdate(t)
        \/ ToggleReturn(t)

\* the list endpoints, called by one client
ListNext ==
    \/ HandleGetMovies(1)
    \/ HandleSearchMovies(1)
    \/ HandleGetFavoriteMovies(1)

ListSpec == ApiInit /\ [][ListNext]_vars

ApiSpec == ApiInit /\ [][ApiNext]_vars

\* ------------------------------------------- properties of the handlers
\* the handler `name` of thread t responds in this step
Responded(t, name) ==
    pc[t] # "done" /\ pc'[t] = "done" /\ op'[t].name = name
ListEndpoints == {"get_movies", "search_movies", "get_favorite_movies"}

\* C24: the pages value of the list, search and favorites responses is the
\* ceiling of total / size (the least n with n * size >= total) when total is
\* positive and 1 when total is 0, total being the number of records that
\* pass the request's filters; the page of every number above that count has
\* no items.
C24_PageCountIsCeiling ==
    [][\A t \in Threads : \A name \in ListEndpoints :
          Responded(t, name) =>
              LET call == op'[t]
                  response == ret'[t]
                  total == Len(apply_filters(movies, call.filters))
              IN  /\ response.total = total
                  /\ total = 0 => response.pages = 1
                  /\ total > 0 =>
                        /\ response.pages * call.size >= total
                        /\ (response.pages - 1) * call.size < total
                  /\ call.page > response.pages => response.items = <<>>
                  /\ \A page \in (response.pages + 1)..(response.pages + MaxPage) :
                        get_movies_paginated(movies, page, call.size,
                                             call.filters).items = <<>>]_vars
\* a search with three matches in pages of two asked for the third page
C24_Witness ==
    \E t \in Threads :
       /\ pc[t] = "done" /\ op[t].name = "search_movies"
       /\ op[t].filters # Some([NoFilters EXCEPT !.search = Some(<<>>)])
       /\ ret[t].total = 3 /\ ret[t].size = 2 /\ ret[t].pages = 2
       /\ ret[t].page = 3 /\ ret[t].items = <<>>

IdEndpoints == {"get_movie", "update_movie", "delete_movie"}
\* C25: for an id that no record of the store has (never assigned or already
\* deleted) get_movie_by_id returns None and update_movie and delete_movie
\* return False, as values, and the store stays as it is; the handlers answer
\* 404 for these results and for no other.
C25_AbsentIdIsNotFound ==
    [][\A t \in Threads : \A name \in IdEndpoints :
          Responded(t, name) =>
              LET absent == op'[t].id \notin IdsOf(movies)
              IN  /\ absent =>
                        /\ op'[t].result = IF name = "get_movie" THEN None
                                                                 ELSE FALSE
                        /\ movies' = movies
                        /\ next_id' = next_id
                  /\ ret'[t].status = 404 <=> absent
                  /\ ret'[t].status \in {200, 404}]_vars
\* an id was deleted and a later delete of it answered 404, while the store
\* still has another record
C25_Witness ==
    \E t, u \in Threads :
       /\ pc[t] = "done" /\ op[t].name = "delete_movie" /\ ret[t].status = 200
       /\ pc[u] = "done" /\ op[u].name = "delete_movie" /\ op[u].id = op[t].id
       /\ ret[u].status = 404
       /\ movies # <<>> /\ op[t].id <= Len(movies)

\* C27: a toggle_favorite request that ran with no other request in progress
\* and succeeded reports the is_favorite value the record now has.
C27_ToggleReportsStoredValue ==
    [][\A t \in Threads :
          (/\ Responded(t, "toggle_favorite")
           /\ ret'[t].status = 200
           /\ \A u \in Threads \ {t} : pc[u] = "idle") =>
              LET i == FirstIndex(movies', op'[t].id)
              IN  i # 0 /\ ret'[t].is_favorite = movies'[i].is_favorite]_vars

\* no request other than toggle_favorite has been made
OnlyToggles == \A u \in Threads : op[u].name \in {"none", "toggle_favorite"}
\* toggle_favorite's call of update_movie runs in this step
ToggleWrites(t) == pc[t] = "toggle_command" /\ pc'[t] # "toggle_command"
====
